---- MODULE Spec2Model ----
(***************************************************************************)
(* Key/value store drafts of AWS_demo.                                     *)
(*                                                                         *)
(*   kv_pair2.py  BackendMongo, BackendDict (capability implementations)   *)
(*                and Backend (the facade that dispatches on a tag)        *)
(*   kv_pair.py   get / post / put / delete over a DynamoDB table          *)
(*                                                                         *)
(* Strings are finite sequences of characters 1..NumChars, so that         *)
(* concatenation and len() are computed as the code computes them.  A      *)
(* store is a function whose DOMAIN is the set of keys present.  The       *)
(* storage services are taken to be reachable: transport failures          *)
(* (BackendUnavailable) are outside the model.                             *)
(***************************************************************************)
EXTENDS Integers, Sequences, FiniteSets, TLC

\* ------------------------------------------------------------------ bounds
NumKeys == 2
NumChars == 2
MaxInt == 2
\* COUNT, the number of pairs run_crud_verify generates (100 in the source);
\* at most the number of keys
COUNT == 2
\* the number of pairs verify_crud creates (range(4) in the source); at most
\* the number of non-empty keys
VerifyPairs == 2

\* ------------------------------------------------------------- data model
Chars == 1..NumChars

\* str values: the empty string "" and the one-character strings
Values == {<<>>} \cup {<<c>> : c \in Chars}

\* keys: the empty string and NumKeys one-character strings
Keys == {<<>>} \cup {<<i>> : i \in 1..NumKeys}

\* Python's None, encoded as a tuple that is no string of the model
None == <<0>>

\* values handed to kv_pair.py: non-empty strings, or None (an item that
\* carries no 'value' attribute)
ItemValues == (Values \ {<<>>}) \cup {None}

EmptyStore == [k \in {} |-> <<>>]

Stores(V) == UNION {[S -> V] : S \in SUBSET Keys}

\* d[key] = value
SetItem(d, key, value) ==
    [k \in DOMAIN d \cup {key} |-> IF k = key THEN value ELSE d[k]]

\* del d[key] (for a key that is present), or removal of a matching record
DelItem(d, key) == [k \in DOMAIN d \ {key} |-> d[k]]

\* the objects the operations are called on
Components == {"BackendMongo", "BackendDict", "Backend", "kv_pair",
               "pytest_uut"}

\* class Backends
Backends == {"DICT", "DYNAMO_DB", "MONGODB", "MYSQL", "SHELVES", "SQLLIGHT",
             "TEXTFILE"}

\* the tags Backend.__init__ accepts
FacadeTags == {"DICT", "SQLLIGHT", "MONGODB"}

VARIABLES
    component,  \* which object this run exercises
    backend,    \* Backend.backend, the tag given to Backend.__init__
    coll,       \* BackendMongo.coll: documents by _id
    dict,       \* BackendDict.dict
    db_con,     \* Backend.db_con when the tag is DICT
    kv_pairs,   \* kv_pair.py: the DynamoDB table, items by hash key
    live,       \* history: keys whose latest successful create was not
                \* followed by a successful delete
    last,       \* history: the latest call, its outcome and the store before
    connected,  \* self.connected of the backend object
    disconnected, \* history: disconnect() was called and no connect() since
    gold,       \* Backend.gold, the shadow map
    calls,      \* concurrent callers: each one's call and how far it got
    returned,   \* history: the callers in the order their calls returned
    initial,    \* history: the store the concurrent callers started from
    uut,        \* test_pytest_uut.py: the TestPytestUut instance and the
                \* latest test_function_uut_one call made on it
    check_dict, \* kv_pair.py __main__: the shadow dictionary of the tests
    removed,    \* history: keys test_delete removed and test_post has not
                \* put back since
    hlast,      \* history: the latest test_* call and how it ended
    vrfy,       \* run_crud_verify: the loop it is in, the keys the loop has
                \* still to visit, results, and the exception that ended it
    constructed, \* the constructor of the object under exercise returned
    main        \* kv_pair2.py __main__: where the program is, verify_crud's
                \* local kv_pairs and loop state, the exception that ended it

vars == <<component, backend, coll, dict, db_con, kv_pairs, live, last,
          connected, disconnected, gold, calls, returned, initial, uut,
          check_dict, removed, hlast, vrfy, constructed, main>>

\* what the sequential calls leave alone / what a create, read, update or
\* delete leaves alone besides the stores
conc == <<calls, returned, initial>>
more == <<uut, check_dict, removed, hlast, vrfy, constructed, main>>
frame == <<connected, disconnected, gold, conc, more>>

\* ------------------------------------------------ kv_pair2.py: BackendMongo
\* Every method below returns [store, exc, ret]: the collection afterwards,
\* the exception raised ("" when the call returns) and the value returned.

\* Collection.insert_one: _id is unique across a collection
insert_one_NoUnique(c, document) ==
    [coll |-> SetItem(c, document._id, document.value), raised |-> ""]

insert_one(c, document) ==
    IF document._id \in DOMAIN c
    THEN [coll |-> c, raised |-> "DuplicateKeyError"]
    ELSE [coll |-> SetItem(c, document._id, document.value), raised |-> ""]

\* Collection.find({"_id": key}): the cursor, as the sequence it yields
find(c, key) ==
    IF key \in DOMAIN c THEN <<[_id |-> key, value |-> c[key]]>> ELSE <<>>

\* Collection.update_one(filter, {"$set": update}, upsert)
update_one_NoSet(c, key, value, upsert) ==
    IF key \in DOMAIN c
    THEN [coll |-> c, matched_count |-> 1,
          modified_count |-> IF c[key] = value THEN 0 ELSE 1]
    ELSE [coll |-> c, matched_count |-> 0, modified_count |-> 0]

update_one_Upsert(c, key, value, upsert) ==
    IF key \in DOMAIN c
    THEN [coll |-> SetItem(c, key, value), matched_count |-> 1,
          modified_count |-> IF c[key] = value THEN 0 ELSE 1]
    ELSE [coll |-> SetItem(c, key, value),
          matched_count |-> 0, modified_count |-> 0]

update_one(c, key, value, upsert) ==
    IF key \in DOMAIN c
    THEN [coll |-> SetItem(c, key, value), matched_count |-> 1,
          modified_count |-> IF c[key] = value THEN 0 ELSE 1]
    ELSE [coll |-> IF upsert THEN SetItem(c, key, value) ELSE c,
          matched_count |-> 0, modified_count |-> 0]

\* Collection.delete_one(filter): removes the matching document, if any
delete_one_KeepsDoc(c, key) == c

delete_one(c, key) == DelItem(c, key)

BackendMongo_create(c, key, value) ==
    LET document == [_id |-> key, value |-> value]
        r == insert_one(c, document)
    IN  [store |-> r.coll, exc |-> r.raised, ret |-> None]

\* the while/next loop of read: r += nx["value"] until StopIteration
RECURSIVE read_loop(_, _)
read_loop(results, r) ==
    IF results = <<>> THEN r
    ELSE read_loop(Tail(results), r \o Head(results).value)

\* (read reporting a missing document)
BackendMongo_read_Missing(c, key) ==
    IF key \in DOMAIN c
    THEN [store |-> c, exc |-> "", ret |-> c[key]]
    ELSE [store |-> c, exc |-> "KeyError", ret |-> None]

\* (a read that consumes what it finds, as find_one_and_delete would)
BackendMongo_read_Consuming(c, key) ==
    LET results == find(c, key)
    IN  [store |-> DelItem(c, key), exc |-> "",
         ret |-> read_loop(results, <<>>)]

BackendMongo_read(c, key) ==
    LET results == find(c, key)
    IN  [store |-> c, exc |-> "", ret |-> read_loop(results, <<>>)]

BackendMongo_update(c, key, value) ==
    LET results == update_one(c, key, value, FALSE)
    IN  IF results.matched_count # 1
        THEN [store |-> results.coll, exc |-> "AssertionError", ret |-> None]
        ELSE IF results.modified_count # 1
        THEN [store |-> results.coll, exc |-> "AssertionError", ret |-> None]
        ELSE [store |-> results.coll, exc |-> "", ret |-> None]

BackendMongo_delete(c, key) ==
    [store |-> delete_one(c, key), exc |-> "", ret |-> None]

\* disconnect().  What hasattr/callable find on the pymongo objects, and
\* whether calling what they found raises, is the library's answer: pymongo's
\* Database and Collection hand back a Collection for any attribute name
\* (lines 773-779), and calling a Collection raises TypeError.
\*   probe.db_close      hasattr(self.db_obj, "close")
\*   probe.db_callable   callable(self.db_obj.close)
\*   probe.coll_close    hasattr(self.coll, "close")
\*   probe.raises        the close() found that way raises TypeError
\* Returns [connected, exc, ret].  MongoClient.close() itself returns; the
\* client of pymongo 3 reopens when it is used again.
Probes == [db_close : BOOLEAN, db_callable : BOOLEAN,
           coll_close : BOOLEAN, raises : BOOLEAN]

BackendMongo_disconnect(conn, probe) ==
    IF probe.db_close /\ probe.db_callable
    THEN IF probe.raises
         THEN [connected |-> conn, exc |-> "TypeError", ret |-> None]
         ELSE [connected |-> FALSE, exc |-> "", ret |-> None]
    ELSE IF probe.coll_close
    THEN IF probe.raises
         THEN [connected |-> conn, exc |-> "TypeError", ret |-> None]
         ELSE [connected |-> conn, exc |-> "", ret |-> None]
    ELSE [connected |-> conn, exc |-> "", ret |-> None]

\* connect(): runs __init__ again, which sets self.connected = True
BackendMongo_connect(conn) ==
    [connected |-> TRUE, exc |-> "", ret |-> None]

BackendMongo_get_key_list(c) ==
    [store |-> c, exc |-> "NotImplementedError", ret |-> None]

\* ------------------------------------------------- kv_pair2.py: BackendDict
BackendDict_create(d, key, value) ==
    IF key \in DOMAIN d
    THEN [store |-> d, exc |-> "ValueError", ret |-> None]
    ELSE [store |-> d, exc |-> "", ret |-> None]

BackendDict_read(d, key) ==
    [store |-> d, exc |-> "NotImplementedError", ret |-> None]

BackendDict_update(d, key, value) ==
    [store |-> d, exc |-> "NotImplementedError", ret |-> None]

BackendDict_delete(d, key) ==
    [store |-> d, exc |-> "NotImplementedError", ret |-> None]

BackendDict_connect(conn) ==
    [connected |-> conn, exc |-> "NotImplementedError", ret |-> None]

\* disconnect(): clears the flag, then raises
BackendDict_disconnect(conn) ==
    [connected |-> FALSE, exc |-> "NotImplementedError", ret |-> None]

BackendDict_get_key_list(d) ==
    [store |-> d, exc |-> "NotImplementedError", ret |-> None]

\* ------------------------------------------- kv_pair2.py: Backend (facade)
\* With the MONGODB tag db_con is a BackendMongo object, which has no
\* insert_one, find_one or clear attribute; with SQLLIGHT it is an sqlite3
\* connection and every branch raises NotImplementedError.

\* (a constructor with no final else)
Backend_init_AnyTag(backend_) ==
    [exc |-> "", backend |-> backend_, db_con |-> EmptyStore,
     gold |-> EmptyStore, connected |-> TRUE]

\* Backend.__init__(backend_): self.backend is assigned first; db_con, gold
\* and connected only when the tag is one of the three.  [exc, backend,
\* db_con, gold, connected], connected FALSE standing for "never assigned".
Backend_init(backend_) ==
    IF backend_ \in FacadeTags
    THEN [exc |-> "", backend |-> backend_, db_con |-> EmptyStore,
          gold |-> EmptyStore, connected |-> TRUE]
    ELSE [exc |-> "NotImplementedError", backend |-> backend_,
          db_con |-> EmptyStore, gold |-> EmptyStore, connected |-> FALSE]

\* (delete leaving the pair where it is)
Backend_delete_KeepsPair(be, d, d_key) ==
    IF be = "DICT"
    THEN IF d_key \in DOMAIN d
         THEN [store |-> d, exc |-> "", ret |-> None]
         ELSE [store |-> d, exc |-> "KeyError", ret |-> None]
    ELSE IF be = "MONGODB"
    THEN [store |-> d, exc |-> "AttributeError", ret |-> None]
    ELSE [store |-> d, exc |-> "NotImplementedError", ret |-> None]

\* (create refusing a key that is already there)
Backend_create_RefusesDuplicate(be, d, ckey, cvalue) ==
    IF be = "DICT"
    THEN IF ckey \in DOMAIN d
         THEN [store |-> d, exc |-> "ValueError", ret |-> None]
         ELSE [store |-> SetItem(d, ckey, cvalue), exc |-> "", ret |-> None]
    ELSE IF be = "MONGODB"
    THEN [store |-> d, exc |-> "AttributeError", ret |-> None]
    ELSE [store |-> d, exc |-> "NotImplementedError", ret |-> None]

Backend_create(be, d, ckey, cvalue) ==
    IF be = "DICT"
    THEN [store |-> SetItem(d, ckey, cvalue), exc |-> "", ret |-> None]
    ELSE IF be = "MONGODB"
    THEN [store |-> d, exc |-> "AttributeError", ret |-> None]
    ELSE [store |-> d, exc |-> "NotImplementedError", ret |-> None]

Backend_read(be, d, r_key) ==
    IF be = "DICT"
    THEN IF r_key \in DOMAIN d
         THEN [store |-> d, exc |-> "", ret |-> d[r_key]]
         ELSE [store |-> d, exc |-> "KeyError", ret |-> None]
    ELSE IF be = "MONGODB"
    THEN [store |-> d, exc |-> "AttributeError", ret |-> None]
    ELSE [store |-> d, exc |-> "NotImplementedError", ret |-> None]

Backend_update1(be, d, u_key, u_value) ==
    IF be = "DICT"
    THEN [store |-> SetItem(d, u_key, u_value), exc |-> "", ret |-> None]
    ELSE IF be = "MONGODB"
    THEN [store |-> d, exc |-> "", ret |-> None]
    ELSE [store |-> d, exc |-> "NotImplementedError", ret |-> None]

Backend_delete(be, d, d_key) ==
    IF be = "DICT"
    THEN IF d_key \in DOMAIN d
         THEN [store |-> DelItem(d, d_key), exc |-> "", ret |-> None]
         ELSE [store |-> d, exc |-> "KeyError", ret |-> None]
    ELSE IF be = "MONGODB"
    THEN [store |-> d, exc |-> "AttributeError", ret |-> None]
    ELSE [store |-> d, exc |-> "NotImplementedError", ret |-> None]

\* ----------------------------------------------------------- kv_pair.py
\* boto's Table over DynamoDB.  An item whose 'value' attribute is missing
\* reads back as None.

\* DynamoDB rejects an empty hash key in every request with a
\* ValidationException (a JSONResponseError); delete guards against it with
\* len(key) > 0, the other three calls do not.  Other failures of the service
\* (the JSONResponseError put answers 500 to) are transport failures.

\* Table.get_item(key=key).  For a key that is not in the table boto either
\* raises ItemNotFound or (get's docstring: "sometimes, get doesn't throw
\* the ItemNotFound exception") hands back an item without a value: both
\* outcomes are possible.
get_item(t, key) ==
    IF Len(key) = 0
    THEN {[raised |-> "JSONResponseError", value |-> None]}
    ELSE IF key \in DOMAIN t
    THEN {[raised |-> "", value |-> t[key]]}
    ELSE {[raised |-> "ItemNotFound", value |-> None],
          [raised |-> "", value |-> None]}

\* Table.put_item(data) with the default overwrite=False: the write is
\* conditional on the hash key being new.
put_item_Overwrite(t, key, value) ==
    IF Len(key) = 0
    THEN [table |-> t, raised |-> "JSONResponseError"]
    ELSE [table |-> SetItem(t, key, value), raised |-> ""]

put_item(t, key, value) ==
    IF Len(key) = 0
    THEN [table |-> t, raised |-> "JSONResponseError"]
    ELSE IF key \in DOMAIN t
    THEN [table |-> t, raised |-> "ConditionalCheckFailedException"]
    ELSE [table |-> SetItem(t, key, value), raised |-> ""]

\* Table.delete_item(key=key): unconditional, succeeds on a missing key
delete_item_Conditional(t, key) ==
    IF key \in DOMAIN t
    THEN [table |-> DelItem(t, key), raised |-> ""]
    ELSE [table |-> t, raised |-> "ConditionalCheckFailedException"]

delete_item(t, key) == [table |-> DelItem(t, key), raised |-> ""]

\* Item.save(overwrite=True): writes the whole item back unconditionally
save_Dropped(t, key, value) == t

save(t, key, value) == SetItem(t, key, value)

\* (get answering 404, not 403, for a key it does not find)
get_NotFound404(t, key) ==
    {IF value.raised = "ItemNotFound"
     THEN [exc |-> "", ret |-> None, status |-> 404]
     ELSE IF value.raised # ""
     THEN [exc |-> value.raised, ret |-> None, status |-> 0]
     ELSE IF value.value = None
     THEN [exc |-> "", ret |-> None, status |-> 404]
     ELSE [exc |-> "", ret |-> value.value, status |-> 200]
     : value \in get_item(t, key)}

\* get(key): the set of results the call can produce, [exc, ret, status]
\* for the returned tuple (ret, status)
get(t, key) ==
    {IF value.raised = "ItemNotFound"
     THEN [exc |-> "", ret |-> None, status |-> 403]
     ELSE IF value.raised # ""
     THEN [exc |-> value.raised, ret |-> None, status |-> 0]
     ELSE IF value.value = None
     THEN [exc |-> "", ret |-> None, status |-> 403]
     ELSE [exc |-> "", ret |-> value.value, status |-> 200]
     : value \in get_item(t, key)}

\* post(key, value): [store, exc, status]
post(t, key, value) ==
    LET r == put_item(t, key, value)
    IN  IF r.raised = ""
        THEN [store |-> r.table, exc |-> "", status |-> 200]
        ELSE IF r.raised = "ConditionalCheckFailedException"
        THEN [store |-> r.table, exc |-> "", status |-> 403]
        ELSE [store |-> r.table, exc |-> r.raised, status |-> 0]

\* delete(key).  The final return 400 is indented one column deeper than the
\* body of the function (Python refuses that unindent as written); it is read
\* as the statement after the if, reached when len(key) is 0.
delete(t, key) ==
    IF Len(key) > 0
    THEN LET r == delete_item(t, key)
         IN  IF r.raised = ""
             THEN [store |-> r.table, exc |-> "", status |-> 200]
             ELSE [store |-> r.table, exc |-> "", status |-> 403]
    ELSE [store |-> t, exc |-> "", status |-> 400]

\* (put without the test for a None value)
put_IgnoresNone(t, key, new_value) ==
    {IF old_value.raised = "ItemNotFound"
     THEN [store |-> t, exc |-> "", status |-> 403]
     ELSE IF old_value.raised # ""
     THEN [store |-> t, exc |-> old_value.raised, status |-> 0]
     ELSE [store |-> save(t, key, new_value), exc |-> "", status |-> 200]
     : old_value \in get_item(t, key)}

\* put(key, new_value): the set of results the call can produce
put(t, key, new_value) ==
    {IF old_value.raised = "ItemNotFound"
     THEN [store |-> t, exc |-> "", status |-> 403]
     ELSE IF old_value.raised # ""
     THEN [store |-> t, exc |-> old_value.raised, status |-> 0]
     ELSE IF old_value.value = None
     THEN [store |-> t, exc |-> "", status |-> 403]
     ELSE [store |-> save(t, key, new_value), exc |-> "", status |-> 200]
     : old_value \in get_item(t, key)}

\* ------------------------------------- pytest_uut.py, test_pytest_uut.py
\* Python values of the three types the tests use.  A number is the exact
\* fraction n/d (an int has d = 1, a float is given in tenths); a str is
\* the tuple s of its characters.
PyInt(n) == [t |-> "int", n |-> n, d |-> 1, s |-> <<>>]
PyFloat(n, d) == [t |-> "float", n |-> n, d |-> d, s |-> <<>>]
PyStr(s) == [t |-> "str", n |-> 0, d |-> 1, s |-> s]

\* s * n for a str s and an int n: s repeated n times
RECURSIVE Repeat(_, _)
Repeat(s, n) == IF n <= 0 THEN <<>> ELSE s \o Repeat(s, n - 1)

\* the values the tests are run with: small ints, floats in tenths, strs
\* of one repeated character
PyInts == {PyInt(n) : n \in 0..MaxInt}
PyFloats == {PyFloat(10 * k + f, 10) : k \in {0, 1}, f \in {0, 1}}
PyStrs == {PyStr(Repeat(<<c>>, n)) : c \in Chars, n \in 0..MaxInt}
PyValues == PyInts \cup PyFloats \cup PyStrs

\* a * b: [exc, val]
Mul(a, b) ==
    IF a.t = "str" /\ b.t = "str"
    THEN [exc |-> "TypeError", val |-> PyInt(0)]
    ELSE IF a.t = "str"
    THEN IF b.t = "int"
         THEN [exc |-> "", val |-> PyStr(Repeat(a.s, b.n))]
         ELSE [exc |-> "TypeError", val |-> PyInt(0)]
    ELSE IF b.t = "str"
    THEN IF a.t = "int"
         THEN [exc |-> "", val |-> PyStr(Repeat(b.s, a.n))]
         ELSE [exc |-> "TypeError", val |-> PyInt(0)]
    ELSE IF a.t = "int" /\ b.t = "int"
    THEN [exc |-> "", val |-> PyInt(a.n * b.n)]
    ELSE [exc |-> "", val |-> PyFloat(a.n * b.n, a.d * b.d)]

\* a == b: numbers compare by value whatever their type, a str equals only
\* the same str
PyEq(a, b) ==
    IF a.t = "str" \/ b.t = "str"
    THEN a.t = b.t /\ a.s = b.s
    ELSE a.n * b.d = b.n * a.d

\* abs(a - b) < 0.0001 for two numbers
Close(a, b) ==
    LET diff == a.n * b.d - b.n * a.d
        abs == IF diff < 0 THEN 0 - diff ELSE diff
    IN  abs * 10000 < a.d * b.d

\* ClassUUT.function_uut_one: return para * self.parameter
function_uut_one(parameter, para) == Mul(para, parameter)

\* TestPytestUut.test_function_uut_one(para, nominal): [exc, ans]
test_function_uut_one(parameter, para, nominal) ==
    LET ans == function_uut_one(parameter, para) IN
    IF ans.exc # ""
    THEN [exc |-> ans.exc, ans |-> ans.val]
    ELSE IF para.t = "float" \/ parameter.t = "float"
    THEN IF nominal.t = "str"
         THEN [exc |-> "TypeError", ans |-> ans.val]
         ELSE IF Close(ans.val, nominal)
         THEN [exc |-> "", ans |-> ans.val]
         ELSE [exc |-> "AssertionError", ans |-> ans.val]
    ELSE IF PyEq(ans.val, nominal)
    THEN [exc |-> "", ans |-> ans.val]
    ELSE [exc |-> "AssertionError", ans |-> ans.val]

\* TestPytestUut(p), before any test is called on it
Instance(p) ==
    [parameter |-> p, op |-> "init", para |-> PyInt(0),
     nominal |-> PyInt(0), ans |-> PyInt(0), exc |-> ""]

\* ------------------------------------------- kv_pair.py: __main__ tests
\* DEBUG is False.  Each test_* function is given the check_dict and the
\* table and yields the set of ways the call can end, [table, check_dict,
\* exc]: exc is "" when it returns, "AssertionError" when an assert fails,
\* or the exception that get, post, put raised.
test_get(cd, t, key) ==
    {[table |-> t, check_dict |-> cd,
      exc |-> IF value.exc # "" THEN value.exc
              ELSE IF key \in DOMAIN cd
              THEN IF value.ret = cd[key] /\ value.status = 200
                   THEN "" ELSE "AssertionError"
              ELSE IF value.ret = None /\ value.status = 403
                   THEN "" ELSE "AssertionError"]
     : value \in get(t, key)}

test_post(cd, t, key, value) ==
    LET p == post(t, key, value) IN
    IF p.exc # ""
    THEN {[table |-> p.store, check_dict |-> cd, exc |-> p.exc]}
    ELSE IF key \notin DOMAIN cd
    THEN IF ~(p.status = 403 \/ p.status = 200)
         THEN {[table |-> p.store, check_dict |-> cd,
                exc |-> "AssertionError"]}
         ELSE {[table |-> p.store, check_dict |-> SetItem(cd, key, value),
                exc |-> IF g.exc # "" THEN g.exc
                        ELSE IF value = g.ret THEN "" ELSE "AssertionError"]
               : g \in get(p.store, key)}
    ELSE {[table |-> p.store, check_dict |-> cd,
           exc |-> IF p.status = 403 THEN "" ELSE "AssertionError"]}

test_delete(cd, t, key) ==
    LET p == delete(t, key) IN
    IF key \in DOMAIN cd
    THEN IF p.status # 200
         THEN {[table |-> p.store, check_dict |-> cd,
                exc |-> "AssertionError"]}
         ELSE {[table |-> p.store, check_dict |-> DelItem(cd, key),
                exc |-> IF status.exc # "" THEN status.exc
                        ELSE IF status.ret = None /\ status.status = 403
                        THEN "" ELSE "AssertionError"]
               : status \in get(p.store, key)}
    ELSE {[table |-> p.store, check_dict |-> cd,
           exc |-> IF p.status = 200 THEN "" ELSE "AssertionError"]}

test_put(cd, t, key, value) ==
    UNION {
        IF p.exc # ""
        THEN {[table |-> p.store, check_dict |-> cd, exc |-> p.exc]}
        ELSE IF key \in DOMAIN cd
        THEN IF p.status # 200
             THEN {[table |-> p.store, check_dict |-> cd,
                    exc |-> "AssertionError"]}
             ELSE {[table |-> p.store, check_dict |-> SetItem(cd, key, value),
                    exc |-> IF g.exc # "" THEN g.exc
                            ELSE IF g.ret = value /\ g.status = 200
                            THEN "" ELSE "AssertionError"]
                   : g \in get(p.store, key)}
        ELSE {[table |-> p.store, check_dict |-> cd,
               exc |-> IF g.exc # "" THEN g.exc
                       ELSE IF g.ret = None /\ g.status = 403
                       THEN "" ELSE "AssertionError"]
              : g \in get(p.store, key)}
        : p \in put(t, key, value)}

\* __main__ of kv_pair2.py about to call verify_crud(db_mongo)
AtStart == [db |-> "db_mongo", pc |-> "create", kv_pairs |-> EmptyStore,
            m |-> 0, todo |-> {}, exc |-> ""]

\* run_crud_verify at its first loop
NotRun == [pc |-> "create", todo |-> {}, results |-> TRUE, exc |-> ""]

\* no test_* call made yet
NoTest == [op |-> "init", key |-> <<>>, exc |-> ""]

\* -------------------------------------------------------- state machine
\* the record kept of a call: operation, arguments, outcome, store before
Called(op, key, value, r, status, before) ==
    [op |-> op, key |-> key, value |-> value, exc |-> r.exc, ret |-> r.ret,
     status |-> status, before |-> before]

Init ==
    /\ component \in Components
    /\ backend \in (IF component = "Backend" THEN Backends ELSE {"SQLLIGHT"})
    /\ coll = EmptyStore
    /\ dict = EmptyStore
    /\ db_con = Backend_init(backend).db_con
    /\ kv_pairs = EmptyStore
    /\ live = {}
    /\ constructed = (component = "Backend" => Backend_init(backend).exc = "")
    /\ last = [op |-> "init", key |-> <<>>, value |-> None,
               exc |-> IF constructed THEN "" ELSE Backend_init(backend).exc,
               ret |-> None, status |-> 0, before |-> EmptyStore]
    /\ connected = (component = "Backend" => Backend_init(backend).connected)
    /\ disconnected = FALSE
    /\ gold = Backend_init(backend).gold
    /\ calls = <<>>
    /\ returned = <<>>
    /\ initial = EmptyStore
    /\ uut \in {Instance(p) : p \in (IF component = "pytest_uut"
                                     THEN PyValues ELSE {PyInt(0)})}
    /\ check_dict = EmptyStore
    /\ removed = {}
    /\ vrfy = NotRun
    /\ hlast = NoTest
    /\ main = AtStart

\* history of C10: a successful create makes the key live, a successful
\* delete ends that
LiveAfter(op, key, r) ==
    IF r.exc # "" THEN live
    ELSE IF op = "create" THEN live \cup {key}
    ELSE IF op = "delete" THEN live \ {key}
    ELSE live

\* --- BackendMongo
Call_BackendMongo_create ==
    /\ component = "BackendMongo"
    /\ \E key \in Keys, value \in Values :
        LET r == BackendMongo_create(coll, key, value) IN
        /\ coll' = r.store
        /\ live' = LiveAfter("create", key, r)
        /\ last' = Called("create", key, value, r, 0, coll)
    /\ UNCHANGED <<component, backend, dict, db_con, kv_pairs, frame>>

Call_BackendMongo_read ==
    /\ component = "BackendMongo"
    /\ \E key \in Keys :
        LET r == BackendMongo_read(coll, key) IN
        /\ coll' = r.store
        /\ live' = LiveAfter("read", key, r)
        /\ last' = Called("read", key, None, r, 0, coll)
    /\ UNCHANGED <<component, backend, dict, db_con, kv_pairs, frame>>

Call_BackendMongo_update ==
    /\ component = "BackendMongo"
    /\ \E key \in Keys, value \in Values :
        LET r == BackendMongo_update(coll, key, value) IN
        /\ coll' = r.store
        /\ live' = LiveAfter("update", key, r)
        /\ last' = Called("update", key, value, r, 0, coll)
    /\ UNCHANGED <<component, backend, dict, db_con, kv_pairs, frame>>

Call_BackendMongo_delete ==
    /\ component = "BackendMongo"
    /\ \E key \in Keys :
        LET r == BackendMongo_delete(coll, key) IN
        /\ coll' = r.store
        /\ live' = LiveAfter("delete", key, r)
        /\ last' = Called("delete", key, None, r, 0, coll)
    /\ UNCHANGED <<component, backend, dict, db_con, kv_pairs, frame>>

Call_BackendMongo_disconnect ==
    /\ component = "BackendMongo"
    /\ \E probe \in Probes :
        LET r == BackendMongo_disconnect(connected, probe) IN
        /\ connected' = r.connected
        /\ last' = Called("disconnect", <<>>, None, r, 0, coll)
    /\ disconnected' = TRUE
    /\ UNCHANGED <<component, backend, coll, dict, db_con, kv_pairs, live,
                   gold, conc, more>>

Call_BackendMongo_connect ==
    /\ component = "BackendMongo"
    /\ LET r == BackendMongo_connect(connected) IN
        /\ connected' = r.connected
        /\ last' = Called("connect", <<>>, None, r, 0, coll)
    /\ disconnected' = FALSE
    /\ UNCHANGED <<component, backend, coll, dict, db_con, kv_pairs, live,
                   gold, conc, more>>

Call_BackendMongo_get_key_list ==
    /\ component = "BackendMongo"
    /\ LET r == BackendMongo_get_key_list(coll) IN
        /\ coll' = r.store
        /\ last' = Called("get_key_list", <<>>, None, r, 0, coll)
    /\ UNCHANGED <<component, backend, dict, db_con, kv_pairs, live, frame>>

\* --- BackendDict
Call_BackendDict_disconnect ==
    /\ component = "BackendDict"
    /\ LET r == BackendDict_disconnect(connected) IN
        /\ connected' = r.connected
        /\ last' = Called("disconnect", <<>>, None, r, 0, dict)
    /\ disconnected' = TRUE
    /\ UNCHANGED <<component, backend, coll, dict, db_con, kv_pairs, live,
                   gold, conc, more>>

\* connect raises before anything is connected: still disconnected
Call_BackendDict_connect ==
    /\ component = "BackendDict"
    /\ LET r == BackendDict_connect(connected) IN
        /\ connected' = r.connected
        /\ last' = Called("connect", <<>>, None, r, 0, dict)
    /\ UNCHANGED <<component, backend, coll, dict, db_con, kv_pairs, live,
                   disconnected, gold, conc, more>>

Call_BackendDict_get_key_list ==
    /\ component = "BackendDict"
    /\ LET r == BackendDict_get_key_list(dict) IN
        /\ dict' = r.store
        /\ last' = Called("get_key_list", <<>>, None, r, 0, dict)
    /\ UNCHANGED <<component, backend, coll, db_con, kv_pairs, live, frame>>

Call_BackendDict_create ==
    /\ component = "BackendDict"
    /\ \E key \in Keys, value \in Values :
        LET r == BackendDict_create(dict, key, value) IN
        /\ dict' = r.store
        /\ live' = LiveAfter("create", key, r)
        /\ last' = Called("create", key, value, r, 0, dict)
    /\ UNCHANGED <<component, backend, coll, db_con, kv_pairs, frame>>

Call_BackendDict_read ==
    /\ component = "BackendDict"
    /\ \E key \in Keys :
        LET r == BackendDict_read(dict, key) IN
        /\ dict' = r.store
        /\ live' = LiveAfter("read", key, r)
        /\ last' = Called("read", key, None, r, 0, dict)
    /\ UNCHANGED <<component, backend, coll, db_con, kv_pairs, frame>>

Call_BackendDict_update ==
    /\ component = "BackendDict"
    /\ \E key \in Keys, value \in Values :
        LET r == BackendDict_update(dict, key, value) IN
        /\ dict' = r.store
        /\ live' = LiveAfter("update", key, r)
        /\ last' = Called("update", key, value, r, 0, dict)
    /\ UNCHANGED <<component, backend, coll, db_con, kv_pairs, frame>>

Call_BackendDict_delete ==
    /\ component = "BackendDict"
    /\ \E key \in Keys :
        LET r == BackendDict_delete(dict, key) IN
        /\ dict' = r.store
        /\ live' = LiveAfter("delete", key, r)
        /\ last' = Called("delete", key, None, r, 0, dict)
    /\ UNCHANGED <<component, backend, coll, db_con, kv_pairs, frame>>

\* --- Backend (facade)

\* (create keeping the shadow map up to date)
Call_Backend_create_WritesGold ==
    /\ component = "Backend" /\ constructed
    /\ \E ckey \in Keys, cvalue \in Values :
        LET r == Backend_create(backend, db_con, ckey, cvalue) IN
        /\ db_con' = r.store
        /\ gold' = r.store
        /\ live' = LiveAfter("create", ckey, r)
        /\ last' = Called("create", ckey, cvalue, r, 0, db_con)
    /\ UNCHANGED <<component, backend, coll, dict, kv_pairs, connected,
                   disconnected, conc, more>>

Call_Backend_create ==
    /\ component = "Backend" /\ constructed
    /\ \E ckey \in Keys, cvalue \in Values :
        LET r == Backend_create(backend, db_con, ckey, cvalue) IN
        /\ db_con' = r.store
        /\ live' = LiveAfter("create", ckey, r)
        /\ last' = Called("create", ckey, cvalue, r, 0, db_con)
    /\ UNCHANGED <<component, backend, coll, dict, kv_pairs, frame>>

Call_Backend_read ==
    /\ component = "Backend" /\ constructed
    /\ \E r_key \in Keys :
        LET r == Backend_read(backend, db_con, r_key) IN
        /\ db_con' = r.store
        /\ live' = LiveAfter("read", r_key, r)
        /\ last' = Called("read", r_key, None, r, 0, db_con)
    /\ UNCHANGED <<component, backend, coll, dict, kv_pairs, frame>>

Call_Backend_update1 ==
    /\ component = "Backend" /\ constructed
    /\ \E u_key \in Keys, u_value \in Values :
        LET r == Backend_update1(backend, db_con, u_key, u_value) IN
        /\ db_con' = r.store
        /\ live' = LiveAfter("update", u_key, r)
        /\ last' = Called("update", u_key, u_value, r, 0, db_con)
    /\ UNCHANGED <<component, backend, coll, dict, kv_pairs, frame>>

Call_Backend_delete ==
    /\ component = "Backend" /\ constructed
    /\ \E d_key \in Keys :
        LET r == Backend_delete(backend, db_con, d_key) IN
        /\ db_con' = r.store
        /\ live' = LiveAfter("delete", d_key, r)
        /\ last' = Called("delete", d_key, None, r, 0, db_con)
    /\ UNCHANGED <<component, backend, coll, dict, kv_pairs, frame>>

\* --- kv_pair.py
Call_get ==
    /\ component = "kv_pair"
    /\ \E key \in Keys : \E res \in get(kv_pairs, key) :
        /\ live' = LiveAfter("read", key, res)
        /\ last' = Called("read", key, None, res, res.status, kv_pairs)
    /\ UNCHANGED <<component, backend, coll, dict, db_con, kv_pairs, frame>>

Call_post ==
    /\ component = "kv_pair"
    /\ \E key \in Keys, value \in ItemValues :
        LET p == post(kv_pairs, key, value)
            r == [exc |-> p.exc, ret |-> None]
            ok == [exc |-> IF p.status = 200 THEN "" ELSE "status", ret |-> None]
        IN
        /\ kv_pairs' = p.store
        /\ live' = LiveAfter("create", key, ok)
        /\ last' = Called("create", key, value, r, p.status, kv_pairs)
    /\ UNCHANGED <<component, backend, coll, dict, db_con, frame>>

Call_put ==
    /\ component = "kv_pair"
    /\ \E key \in Keys, new_value \in ItemValues :
       \E p \in put(kv_pairs, key, new_value) :
        LET r == [exc |-> p.exc, ret |-> None]
            ok == [exc |-> IF p.status = 200 THEN "" ELSE "status", ret |-> None]
        IN
        /\ kv_pairs' = p.store
        /\ live' = LiveAfter("update", key, ok)
        /\ last' = Called("update", key, new_value, r, p.status, kv_pairs)
    /\ UNCHANGED <<component, backend, coll, dict, db_con, frame>>

Call_delete ==
    /\ component = "kv_pair"
    /\ \E key \in Keys :
        LET p == delete(kv_pairs, key)
            r == [exc |-> p.exc, ret |-> None]
            ok == [exc |-> IF p.status = 200 THEN "" ELSE "status", ret |-> None]
        IN
        /\ kv_pairs' = p.store
        /\ live' = LiveAfter("delete", key, ok)
        /\ last' = Called("delete", key, None, r, p.status, kv_pairs)
    /\ UNCHANGED <<component, backend, coll, dict, db_con, frame>>

\* --- test_pytest_uut.py
Call_test_function_uut_one ==
    /\ component = "pytest_uut"
    /\ \E para \in PyValues, nominal \in PyValues :
        LET r == test_function_uut_one(uut.parameter, para, nominal) IN
        uut' = [parameter |-> uut.parameter, op |-> "test_function_uut_one",
                para |-> para, nominal |-> nominal, ans |-> r.ans,
                exc |-> r.exc]
    /\ UNCHANGED <<component, backend, coll, dict, db_con, kv_pairs, live,
                   last, connected, disconnected, gold, conc,
                   check_dict, removed, hlast, vrfy, constructed, main>>

Next ==
    \/ Call_BackendMongo_create
    \/ Call_BackendMongo_read
    \/ Call_BackendMongo_update
    \/ Call_BackendMongo_delete
    \/ Call_BackendMongo_disconnect
    \/ Call_BackendMongo_connect
    \/ Call_BackendMongo_get_key_list
    \/ Call_BackendDict_create
    \/ Call_BackendDict_read
    \/ Call_BackendDict_update
    \/ Call_BackendDict_delete
    \/ Call_BackendDict_disconnect
    \/ Call_BackendDict_connect
    \/ Call_BackendDict_get_key_list
    \/ Call_Backend_create
    \/ Call_Backend_read
    \/ Call_Backend_update1
    \/ Call_Backend_delete
    \/ Call_get
    \/ Call_post
    \/ Call_put
    \/ Call_delete
    \/ Call_test_function_uut_one

Spec == Init /\ [][Next]_vars

\* the store of the object under exercise
Store ==
    IF component = "BackendMongo" THEN coll
    ELSE IF component = "BackendDict" THEN dict
    ELSE IF component = "Backend" THEN db_con
    ELSE kv_pairs

TypeOK ==
    /\ component \in Components
    /\ backend \in Backends
    /\ constructed \in BOOLEAN
    /\ coll \in Stores(Values)
    /\ dict \in Stores(Values)
    /\ db_con \in Stores(Values)
    /\ kv_pairs \in Stores(ItemValues)
    /\ live \subseteq Keys
    /\ last.op \in {"init", "create", "read", "update", "delete",
                   "disconnect", "connect", "get_key_list"}
    /\ connected \in BOOLEAN
    /\ disconnected \in BOOLEAN
    /\ gold \in Stores(Values)
    /\ last.key \in Keys

\* ------------------------------------------------ concurrent callers
\* Two callers share one store (two requests against the same DynamoDB
\* table, two clients of the same collection).  Each makes one call.  A
\* request to the store is one step: put_item, delete_item, get_item, save
\* and insert_one are single requests; put is two of them, get_item and
\* then save, and the other caller may run in between.
Callers == {"A", "B"}

\* the contents the callers may find: nothing or one record.  BackendDict
\* never stores anything, so its dict is empty.
Seeds(K, V) == {EmptyStore} \cup {SetItem(EmptyStore, k, v) : k \in K, v \in V}

\* a call not yet begun, with its arguments
Pending(op, key, value) ==
    [op |-> op, key |-> key, value |-> value, pc |-> "called",
     old_value |-> None, exc |-> "", status |-> 0]

\* the call returned (or raised): its status code and exception
Return(call, exc, status) ==
    [call EXCEPT !.pc = "done", !.exc = exc, !.status = status]

InitConc ==
    /\ component \in {"kv_pair", "BackendMongo", "BackendDict"}
    /\ backend = "SQLLIGHT"
    /\ initial \in (IF component = "kv_pair"
                    THEN Seeds(Keys \ {<<>>}, ItemValues)
                    ELSE IF component = "BackendMongo"
                    THEN Seeds(Keys, Values)
                    ELSE {EmptyStore})
    /\ kv_pairs = (IF component = "kv_pair" THEN initial ELSE EmptyStore)
    /\ coll = (IF component = "BackendMongo" THEN initial ELSE EmptyStore)
    /\ dict = EmptyStore
    /\ db_con = EmptyStore
    /\ live = {}
    /\ last = [op |-> "init", key |-> <<>>, value |-> None, exc |-> "",
               ret |-> None, status |-> 0, before |-> EmptyStore]
    /\ connected = TRUE
    /\ disconnected = FALSE
    /\ gold = EmptyStore
    /\ calls \in (IF component = "kv_pair"
                  THEN [Callers -> {Pending(op, key, value) :
                                      op \in {"post", "put", "delete"},
                                      key \in Keys, value \in ItemValues}]
                  ELSE [Callers -> {Pending("create", key, value) :
                                      key \in Keys, value \in Values}])
    /\ returned = <<>>
    /\ uut = Instance(PyInt(0))
    /\ check_dict = EmptyStore
    /\ removed = {}
    /\ hlast = NoTest
    /\ main = AtStart
    /\ vrfy = NotRun
    /\ constructed = TRUE

\* post(key, value): one conditional put_item
Conc_post(c) ==
    /\ component = "kv_pair"
    /\ calls[c].op = "post" /\ calls[c].pc = "called"
    /\ LET p == post(kv_pairs, calls[c].key, calls[c].value) IN
        /\ kv_pairs' = p.store
        /\ calls' = [calls EXCEPT ![c] = Return(@, p.exc, p.status)]
    /\ returned' = Append(returned, c)
    /\ UNCHANGED <<component, backend, coll, dict, db_con, live, last,
                   connected, disconnected, gold, initial, more>>

\* delete(key): one delete_item, or 400 at once for the empty key
Conc_delete(c) ==
    /\ component = "kv_pair"
    /\ calls[c].op = "delete" /\ calls[c].pc = "called"
    /\ LET p == delete(kv_pairs, calls[c].key) IN
        /\ kv_pairs' = p.store
        /\ calls' = [calls EXCEPT ![c] = Return(@, p.exc, p.status)]
    /\ returned' = Append(returned, c)
    /\ UNCHANGED <<component, backend, coll, dict, db_con, live, last,
                   connected, disconnected, gold, initial, more>>

\* put(key, new_value), first request: old_value = kv_pairs.get_item(key),
\* returning 403 for a missing item or a None value
Conc_put_get_item(c) ==
    /\ component = "kv_pair"
    /\ calls[c].op = "put" /\ calls[c].pc = "called"
    /\ \E old_value \in get_item(kv_pairs, calls[c].key) :
        IF old_value.raised = "ItemNotFound"
        THEN /\ calls' = [calls EXCEPT ![c] = Return(@, "", 403)]
             /\ returned' = Append(returned, c)
        ELSE IF old_value.raised # ""
        THEN /\ calls' = [calls EXCEPT ![c] = Return(@, old_value.raised, 0)]
             /\ returned' = Append(returned, c)
        ELSE IF old_value.value = None
        THEN /\ calls' = [calls EXCEPT ![c] = Return(@, "", 403)]
             /\ returned' = Append(returned, c)
        ELSE /\ calls' = [calls EXCEPT ![c].pc = "save",
                                       ![c].old_value = old_value.value]
             /\ UNCHANGED returned
    /\ UNCHANGED <<component, backend, coll, dict, db_con, kv_pairs, live,
                   last, connected, disconnected, gold, initial, more>>

\* put, second request: old_value['value'] = new_value and
\* old_value.save(overwrite=True), then return 200
Conc_put_save(c) ==
    /\ component = "kv_pair"
    /\ calls[c].op = "put" /\ calls[c].pc = "save"
    /\ kv_pairs' = save(kv_pairs, calls[c].key, calls[c].value)
    /\ calls' = [calls EXCEPT ![c] = Return(@, "", 200)]
    /\ returned' = Append(returned, c)
    /\ UNCHANGED <<component, backend, coll, dict, db_con, live, last,
                   connected, disconnected, gold, initial, more>>

\* BackendMongo.create: one insert_one
Conc_BackendMongo_create(c) ==
    /\ component = "BackendMongo"
    /\ calls[c].op = "create" /\ calls[c].pc = "called"
    /\ LET r == BackendMongo_create(coll, calls[c].key, calls[c].value) IN
        /\ coll' = r.store
        /\ calls' = [calls EXCEPT ![c] = Return(@, r.exc, 0)]
    /\ returned' = Append(returned, c)
    /\ UNCHANGED <<component, backend, dict, db_con, kv_pairs, live, last,
                   connected, disconnected, gold, initial, more>>

\* BackendDict.create: the membership test, and nothing after it
Conc_BackendDict_create(c) ==
    /\ component = "BackendDict"
    /\ calls[c].op = "create" /\ calls[c].pc = "called"
    /\ LET r == BackendDict_create(dict, calls[c].key, calls[c].value) IN
        /\ dict' = r.store
        /\ calls' = [calls EXCEPT ![c] = Return(@, r.exc, 0)]
    /\ returned' = Append(returned, c)
    /\ UNCHANGED <<component, backend, coll, db_con, kv_pairs, live, last,
                   connected, disconnected, gold, initial, more>>

NextConc ==
    \E c \in Callers :
        \/ Conc_post(c)
        \/ Conc_delete(c)
        \/ Conc_put_get_item(c)
        \/ Conc_put_save(c)
        \/ Conc_BackendMongo_create(c)
        \/ Conc_BackendDict_create(c)

SpecConc == InitConc /\ [][NextConc]_vars

\* ---------------------------------------------- kv_pair.py test harness
\* The test_* functions called in any order with any arguments, on a table
\* that may hold anything.  An exception that escapes a test_* call ends
\* the run.
Tables == {t \in Stores(ItemValues) : <<>> \notin DOMAIN t}

InitMain ==
    /\ component = "kv_pair"
    /\ backend = "SQLLIGHT"
    /\ kv_pairs \in Tables
    /\ initial = kv_pairs
    /\ coll = EmptyStore
    /\ dict = EmptyStore
    /\ db_con = EmptyStore
    /\ live = {}
    /\ last = [op |-> "init", key |-> <<>>, value |-> None, exc |-> "",
               ret |-> None, status |-> 0, before |-> EmptyStore]
    /\ connected = TRUE
    /\ disconnected = FALSE
    /\ gold = EmptyStore
    /\ calls = <<>>
    /\ returned = <<>>
    /\ uut = Instance(PyInt(0))
    /\ check_dict = EmptyStore
    /\ removed = {}
    /\ hlast = NoTest
    /\ main = AtStart
    /\ vrfy = NotRun
    /\ constructed = TRUE

unchangedMain == <<component, backend, coll, dict, db_con, live, last,
                   connected, disconnected, gold, conc, uut, vrfy,
                   constructed, main>>

Main_test_get ==
    /\ hlast.exc = ""
    /\ \E key \in Keys : \E r \in test_get(check_dict, kv_pairs, key) :
        /\ kv_pairs' = r.table
        /\ check_dict' = r.check_dict
        /\ hlast' = [op |-> "test_get", key |-> key, exc |-> r.exc]
    /\ UNCHANGED <<removed, unchangedMain>>

Main_test_post ==
    /\ hlast.exc = ""
    /\ \E key \in Keys, value \in ItemValues :
       \E r \in test_post(check_dict, kv_pairs, key, value) :
        /\ kv_pairs' = r.table
        /\ check_dict' = r.check_dict
        /\ removed' = IF key \in DOMAIN r.check_dict
                      THEN removed \ {key} ELSE removed
        /\ hlast' = [op |-> "test_post", key |-> key, exc |-> r.exc]
    /\ UNCHANGED unchangedMain

Main_test_put ==
    /\ hlast.exc = ""
    /\ \E key \in Keys, value \in ItemValues :
       \E r \in test_put(check_dict, kv_pairs, key, value) :
        /\ kv_pairs' = r.table
        /\ check_dict' = r.check_dict
        /\ hlast' = [op |-> "test_put", key |-> key, exc |-> r.exc]
    /\ UNCHANGED <<removed, unchangedMain>>

Main_test_delete ==
    /\ hlast.exc = ""
    /\ \E key \in Keys : \E r \in test_delete(check_dict, kv_pairs, key) :
        /\ kv_pairs' = r.table
        /\ check_dict' = r.check_dict
        /\ removed' = IF r.exc = "" THEN removed \cup {key} ELSE removed
        /\ hlast' = [op |-> "test_delete", key |-> key, exc |-> r.exc]
    /\ UNCHANGED unchangedMain

NextMain ==
    \/ Main_test_get
    \/ Main_test_post
    \/ Main_test_put
    \/ Main_test_delete

SpecMain == InitMain /\ [][NextMain]_vars

\* ------------------------------------------- kv_pair2.py: run_crud_verify
\* bcknd = Backend(vrfy_backend), then four loops: create COUNT pairs with
\* fresh keys, update1 each key of gold, delete each, read each.  The
\* function writes bcknd.gold itself before each create and update1.  An
\* exception other than the KeyError the last loop expects ends the run.
InitVerify ==
    /\ component = "Backend"
    /\ backend \in Backends
    /\ coll = EmptyStore
    /\ dict = EmptyStore
    /\ db_con = Backend_init(backend).db_con
    /\ kv_pairs = EmptyStore
    /\ live = {}
    /\ last = [op |-> "init", key |-> <<>>, value |-> None, exc |-> "",
               ret |-> None, status |-> 0, before |-> EmptyStore]
    /\ connected = TRUE
    /\ disconnected = FALSE
    /\ gold = EmptyStore
    /\ calls = <<>>
    /\ returned = <<>>
    /\ initial = EmptyStore
    /\ uut = Instance(PyInt(0))
    /\ check_dict = EmptyStore
    /\ removed = {}
    /\ hlast = NoTest
    /\ main = AtStart
    /\ constructed = (Backend_init(backend).exc = "")
    /\ vrfy = IF constructed THEN NotRun
              ELSE [pc |-> "raised", todo |-> {}, results |-> TRUE,
                    exc |-> Backend_init(backend).exc]

unchangedVerify == <<component, backend, coll, dict, kv_pairs, live, last,
                     connected, disconnected, conc, uut, check_dict,
                     removed, hlast, constructed, main>>

\* the state of the run after one pass of a loop: ended by exc, or on to
\* the loop `after` when no key is left, or still in the loop
Step(exc, left, after, results) ==
    IF exc # ""
    THEN [pc |-> "raised", todo |-> {}, results |-> results, exc |-> exc]
    ELSE IF left = {}
    THEN [pc |-> after, todo |-> DOMAIN gold', results |-> results,
          exc |-> ""]
    ELSE [pc |-> vrfy.pc, todo |-> left, results |-> results, exc |-> ""]

Verify_create ==
    /\ vrfy.pc = "create"
    /\ \E key \in Keys \ DOMAIN gold, value \in Values :
        LET r == Backend_create(backend, db_con, key, value) IN
        /\ gold' = SetItem(gold, key, value)
        /\ db_con' = r.store
        /\ vrfy' = Step(r.exc,
                        IF Cardinality(DOMAIN gold) + 1 < COUNT
                        THEN Keys \ DOMAIN gold' ELSE {},
                        "update", vrfy.results)
    /\ UNCHANGED unchangedVerify

Verify_update1 ==
    /\ vrfy.pc = "update"
    /\ \E key \in vrfy.todo, value \in Values :
        LET r == Backend_update1(backend, db_con, key, value) IN
        /\ gold' = SetItem(gold, key, value)
        /\ db_con' = r.store
        /\ vrfy' = Step(r.exc, vrfy.todo \ {key}, "delete", vrfy.results)
    /\ UNCHANGED unchangedVerify

Verify_delete ==
    /\ vrfy.pc = "delete"
    /\ \E key \in vrfy.todo :
        LET r == Backend_delete(backend, db_con, key) IN
        /\ gold' = gold
        /\ db_con' = r.store
        /\ vrfy' = Step(r.exc, vrfy.todo \ {key}, "read", vrfy.results)
    /\ UNCHANGED unchangedVerify

Verify_read ==
    /\ vrfy.pc = "read"
    /\ \E key \in vrfy.todo :
        LET r == Backend_read(backend, db_con, key) IN
        /\ gold' = gold
        /\ db_con' = r.store
        /\ vrfy' = Step(IF r.exc = "KeyError" THEN "" ELSE r.exc,
                        vrfy.todo \ {key}, "done",
                        IF r.exc = "" THEN FALSE ELSE vrfy.results)
    /\ UNCHANGED unchangedVerify

NextVerify ==
    \/ Verify_create
    \/ Verify_update1
    \/ Verify_delete
    \/ Verify_read

SpecVerify == InitVerify /\ [][NextVerify]_vars

\* ------------------------------------------------ kv_pair2.py: __main__
\* db_mongo = BackendMongo(...); verify_crud(db_mongo); db_mongo.disconnect();
\* db_dict = BackendDict(); verify_crud(db_dict); db_dict.disconnect();
\* sys.exit(0).  verify_crud creates VerifyPairs random pairs, remembering
\* them in its local kv_pairs, then reads each key back and compares.  An
\* exception ends the program where it is raised.
InitProgram ==
    /\ component = "BackendMongo"
    /\ backend = "SQLLIGHT"
    /\ coll = EmptyStore
    /\ dict = EmptyStore
    /\ db_con = EmptyStore
    /\ kv_pairs = EmptyStore
    /\ live = {}
    /\ last = [op |-> "init", key |-> <<>>, value |-> None, exc |-> "",
               ret |-> None, status |-> 0, before |-> EmptyStore]
    /\ connected = TRUE
    /\ disconnected = FALSE
    /\ gold = EmptyStore
    /\ calls = <<>>
    /\ returned = <<>>
    /\ initial = EmptyStore
    /\ uut = Instance(PyInt(0))
    /\ check_dict = EmptyStore
    /\ removed = {}
    /\ hlast = NoTest
    /\ main = AtStart
    /\ vrfy = NotRun
    /\ constructed = TRUE

unchangedProgram == <<backend, db_con, kv_pairs, live, last, gold, conc, uut,
                      check_dict, removed, hlast, vrfy, constructed>>

\* the program stopped by an exception
Raised(exc) == [main EXCEPT !.pc = "raised", !.exc = exc]

\* for m in range(VerifyPairs): kv_pairs[key] = value; db.create(key, value)
Program_create ==
    /\ main.pc = "create"
    /\ \E key \in Keys \ {<<>>}, value \in Values \ {<<>>} :
        LET r == IF main.db = "db_mongo"
                 THEN BackendMongo_create(coll, key, value)
                 ELSE BackendDict_create(dict, key, value)
            kv == SetItem(main.kv_pairs, key, value)
        IN
        /\ coll' = IF main.db = "db_mongo" THEN r.store ELSE coll
        /\ dict' = IF main.db = "db_mongo" THEN dict ELSE r.store
        /\ main' = IF r.exc # "" THEN [Raised(r.exc) EXCEPT !.kv_pairs = kv]
                   ELSE IF main.m + 1 < VerifyPairs
                   THEN [main EXCEPT !.kv_pairs = kv, !.m = main.m + 1]
                   ELSE [main EXCEPT !.kv_pairs = kv, !.m = main.m + 1,
                                     !.pc = "read", !.todo = DOMAIN kv]
    /\ UNCHANGED <<component, connected, disconnected, unchangedProgram>>

\* for k in kv_pairs.keys(): value = db.read(k); assert value == kv_pairs[k]
Program_read ==
    /\ main.pc = "read"
    /\ \E k \in main.todo :
        LET r == IF main.db = "db_mongo"
                 THEN BackendMongo_read(coll, k)
                 ELSE BackendDict_read(dict, k)
            left == main.todo \ {k}
        IN
        /\ coll' = IF main.db = "db_mongo" THEN r.store ELSE coll
        /\ dict' = IF main.db = "db_mongo" THEN dict ELSE r.store
        /\ main' = IF r.exc # "" THEN Raised(r.exc)
                   ELSE IF r.ret # main.kv_pairs[k]
                   THEN Raised("AssertionError")
                   ELSE IF left # {} THEN [main EXCEPT !.todo = left]
                   ELSE [main EXCEPT !.todo = left, !.pc = "disconnect"]
    /\ UNCHANGED <<component, connected, disconnected, unchangedProgram>>

\* db_mongo.disconnect(); del db_mongo; db_dict = BackendDict()   and
\* db_dict.disconnect(); sys.exit(0)
Program_disconnect ==
    /\ main.pc = "disconnect"
    /\ \E probe \in Probes :
        LET r == IF main.db = "db_mongo"
                 THEN BackendMongo_disconnect(connected, probe)
                 ELSE BackendDict_disconnect(connected)
        IN
        IF r.exc # ""
        THEN /\ main' = Raised(r.exc)
             /\ connected' = r.connected
             /\ disconnected' = TRUE
             /\ UNCHANGED component
        ELSE IF main.db = "db_mongo"
        THEN /\ main' = [db |-> "db_dict", pc |-> "create",
                         kv_pairs |-> EmptyStore, m |-> 0, todo |-> {},
                         exc |-> ""]
             /\ component' = "BackendDict"
             /\ connected' = TRUE
             /\ disconnected' = FALSE
        ELSE /\ main' = [main EXCEPT !.pc = "exit"]
             /\ connected' = r.connected
             /\ disconnected' = TRUE
             /\ UNCHANGED component
    /\ UNCHANGED <<coll, dict, unchangedProgram>>

NextProgram ==
    \/ Program_create
    \/ Program_read
    \/ Program_disconnect

SpecProgram == InitProgram /\ [][NextProgram]_vars

\* ------------------------------------------------------------ properties
Mongo == component = "BackendMongo"
Facade == component = "Backend"
Http == component = "kv_pair"

\* the latest call was `op` on a key that was absent / present before it
OnAbsent(op) == last.op = op /\ last.key \notin DOMAIN last.before
OnPresent(op) == last.op = op /\ last.key \in DOMAIN last.before

\* C1: for a key absent from the backend, create(k, v) returns normally and
\* a read(k) right after it returns exactly v -- on BackendMongo and on
\* BackendDict.
C1_CreateThenRead ==
    ((Mongo \/ component = "BackendDict") /\ OnAbsent("create")) =>
        LET rd == IF Mongo THEN BackendMongo_read(coll, last.key)
                  ELSE BackendDict_read(dict, last.key)
        IN  last.exc = "" /\ rd.exc = "" /\ rd.ret = last.value

\* C1 restricted to BackendMongo (the half of C1 the code satisfies)
C1_CreateThenRead_Mongo ==
    (Mongo /\ OnAbsent("create")) =>
        LET rd == BackendMongo_read(coll, last.key)
        IN  last.exc = "" /\ rd.exc = "" /\ rd.ret = last.value

\* C2: create(k, v2) on a key already holding v fails -- BackendMongo.create
\* raises DuplicateKeyError, kv_pair.post answers 403 -- and k still holds v.
C2_DuplicateCreateFails ==
    ((Mongo \/ Http) /\ OnPresent("create")) =>
        /\ IF Mongo THEN last.exc = "DuplicateKeyError"
           ELSE last.exc = "" /\ last.status = 403
        /\ last.key \in DOMAIN Store
        /\ Store[last.key] = last.before[last.key]

C2_Witness ==
    /\ Mongo /\ OnPresent("create")
    /\ last.value # last.before[last.key]
    /\ last.exc = "DuplicateKeyError"

\* C3: read(k) of a key that is not present fails with an error instead of
\* returning a value -- BackendMongo.read and the facade's Backend.read.
C3_ReadAbsentFails ==
    ((Mongo \/ Facade) /\ OnAbsent("read")) => last.exc # ""

\* C4: update(k, v2) on a key holding a value v # v2 succeeds and a read(k)
\* after it returns v2 -- BackendMongo.update, and kv_pair.put followed by
\* kv_pair.get (v and v2 values, not None).
C4_UpdateThenRead ==
    ((Mongo \/ Http) /\ OnPresent("update")
        /\ last.before[last.key] # last.value
        /\ last.before[last.key] # None /\ last.value # None) =>
        IF Mongo
        THEN /\ last.exc = ""
             /\ BackendMongo_read(coll, last.key).exc = ""
             /\ BackendMongo_read(coll, last.key).ret = last.value
        ELSE /\ last.exc = "" /\ last.status = 200
             /\ get(kv_pairs, last.key) =
                    {[exc |-> "", ret |-> last.value, status |-> 200]}

C4_Witness ==
    /\ Mongo /\ OnPresent("update")
    /\ last.before[last.key] # last.value
    /\ last.exc = ""
    /\ coll[last.key] = last.value

\* C5: update(k, v) on an absent key fails -- BackendMongo.update raises,
\* kv_pair.put answers 403 (or raises, for the empty key) -- and the store
\* is unchanged, k still absent.
C5_UpdateAbsentFails ==
    ((Mongo \/ Http) /\ OnAbsent("update")) =>
        /\ IF Mongo THEN last.exc = "AssertionError"
           ELSE IF Len(last.key) = 0 THEN last.exc = "JSONResponseError"
           ELSE last.exc = "" /\ last.status = 403
        /\ Store = last.before
        /\ last.key \notin DOMAIN Store

C5_Witness ==
    /\ Mongo /\ OnAbsent("update")
    /\ last.exc = "AssertionError"
    /\ last.before # EmptyStore

\* C6: the facade's update1 never creates a record: a key absent before
\* update1(k, v) is absent after it.
C6_Update1NeverCreates ==
    (Facade /\ OnAbsent("update")) => last.key \notin DOMAIN db_con

\* C7 (as claimed): for every key, present or absent, delete(k) succeeds,
\* and a second delete(k) succeeds too and leaves k absent --
\* BackendMongo.delete, and kv_pair.delete answering 200 both times.
C7_DeleteIdempotent ==
    ((Mongo \/ Http) /\ last.op = "delete") =>
        IF Mongo
        THEN /\ last.exc = ""
             /\ BackendMongo_delete(coll, last.key).exc = ""
             /\ last.key \notin DOMAIN BackendMongo_delete(coll, last.key).store
        ELSE /\ last.exc = "" /\ last.status = 200
             /\ delete(kv_pairs, last.key).status = 200
             /\ last.key \notin DOMAIN delete(kv_pairs, last.key).store

\* C7 (amended): the same for every key of BackendMongo.delete and for every
\* non-empty key of kv_pair.delete.
C7_DeleteIdempotent_NonEmptyKey ==
    ((Mongo \/ (Http /\ Len(last.key) > 0)) /\ last.op = "delete") =>
        IF Mongo
        THEN /\ last.exc = ""
             /\ last.key \notin DOMAIN coll
             /\ BackendMongo_delete(coll, last.key).exc = ""
             /\ last.key \notin DOMAIN BackendMongo_delete(coll, last.key).store
        ELSE /\ last.exc = "" /\ last.status = 200
             /\ last.key \notin DOMAIN kv_pairs
             /\ delete(kv_pairs, last.key).status = 200
             /\ last.key \notin DOMAIN delete(kv_pairs, last.key).store

\* a second delete in a row: kv_pair.delete of a key it has just removed
C7_Witness ==
    /\ Http /\ last.op = "delete" /\ Len(last.key) > 0
    /\ last.key \notin DOMAIN last.before
    /\ last.status = 200
    /\ kv_pairs # EmptyStore

\* C8: the facade's delete(k) of a key that does not exist returns without
\* raising and leaves the store unchanged.
C8_FacadeDeleteAbsent ==
    (Facade /\ OnAbsent("delete")) => last.exc = "" /\ db_con = last.before

\* C9: on BackendMongo, after delete(k) of a present key a read(k) fails
\* with an error.
C9_ReadAfterDeleteFails ==
    (Mongo /\ OnPresent("delete")) => BackendMongo_read(coll, last.key).exc # ""

\* C10: on a backend (BackendMongo, the facade) a key is present iff its
\* latest successful create was not followed by a delete, and no update
\* changes which keys are present.
C10_PresentIffLive ==
    (Mongo \/ Facade) =>
        /\ DOMAIN Store = live
        /\ last.op = "update" => DOMAIN Store = DOMAIN last.before

\* C10 restricted to BackendMongo (where the code satisfies it)
C10_PresentIffLive_Mongo ==
    Mongo =>
        /\ DOMAIN coll = live
        /\ last.op = "update" => DOMAIN coll = DOMAIN last.before

Crud == {"create", "read", "update", "delete"}

\* C11: after disconnect() and until the backend is connected again, every
\* create/read/update/delete call fails (the claim: with NotConnected; read
\* here as with any error) and leaves the store as it was -- BackendMongo
\* and BackendDict.
C11_DisconnectedCallsFail ==
    ((Mongo \/ component = "BackendDict") /\ disconnected /\ last.op \in Crud)
        => last.exc # "" /\ Store = last.before

\* the latest call returned normally (for kv_pair.py: with status 200)
Succeeded == last.exc = "" /\ (Http => last.status = 200)

\* C14: update is idempotent: update(k, v) on a present key succeeds, also
\* when k already holds v, and a second update(k, v) succeeds too and leaves
\* the store as the first left it -- BackendMongo.update and kv_pair.put
\* (values, not None).
C14_UpdateIdempotent ==
    ((Mongo \/ Http) /\ OnPresent("update")
        /\ last.before[last.key] # None /\ last.value # None) =>
        IF Mongo
        THEN /\ last.exc = ""
             /\ BackendMongo_update(coll, last.key, last.value).exc = ""
             /\ BackendMongo_update(coll, last.key, last.value).store = coll
        ELSE /\ last.exc = "" /\ last.status = 200
             /\ \A p \in put(kv_pairs, last.key, last.value) :
                    p.exc = "" /\ p.status = 200 /\ p.store = kv_pairs

\* C14 restricted to kv_pair.put (where the code satisfies it)
C14_UpdateIdempotent_Http ==
    (Http /\ OnPresent("update")
        /\ last.before[last.key] # None /\ last.value # None) =>
        /\ last.exc = "" /\ last.status = 200
        /\ \A p \in put(kv_pairs, last.key, last.value) :
               p.exc = "" /\ p.status = 200 /\ p.store = kv_pairs

\* C15: read never mutates: after read(k), k present or absent, the store is
\* what it was before, and reading k again gives the result the first read
\* gave -- BackendMongo.read, Backend.read, kv_pair.get.
C15_ReadNeverMutates ==
    ((Mongo \/ Facade \/ Http) /\ last.op = "read") =>
        /\ Store = last.before
        /\ IF Mongo
           THEN /\ BackendMongo_read(coll, last.key).exc = last.exc
                /\ BackendMongo_read(coll, last.key).ret = last.ret
           ELSE IF Facade
           THEN /\ Backend_read(backend, db_con, last.key).exc = last.exc
                /\ Backend_read(backend, db_con, last.key).ret = last.ret
           ELSE \A again \in get(kv_pairs, last.key) :
                    /\ again.exc = last.exc
                    /\ again.ret = last.ret
                    /\ again.status = last.status

C15_Witness ==
    /\ Mongo /\ OnPresent("read")
    /\ last.exc = "" /\ last.ret = last.before[last.key]
    /\ last.ret # <<>>

\* C16: no create, read or update is a silent no-op: one that returns
\* normally has had its effect -- the record is stored with the value given,
\* the value returned is the one stored -- on every backend, the facade and
\* kv_pair.py.
C16_NoSilentNoOp ==
    (last.op \in {"create", "read", "update"} /\ Succeeded) =>
        IF last.op = "read"
        THEN last.key \in DOMAIN last.before
                /\ last.ret = last.before[last.key]
        ELSE last.key \in DOMAIN Store /\ Store[last.key] = last.value

\* C17: for every tag Backend.__init__ accepts, the facade's create(k, v) on
\* an absent key stores k with v and read(k) then returns v.
C17_FacadeForwards ==
    (Facade /\ OnAbsent("create")) =>
        /\ last.exc = ""
        /\ last.key \in DOMAIN db_con /\ db_con[last.key] = last.value
        /\ Backend_read(backend, db_con, last.key).exc = ""
        /\ Backend_read(backend, db_con, last.key).ret = last.value

\* C17 restricted to the DICT tag (where the code satisfies it)
C17_FacadeForwards_Dict ==
    (Facade /\ backend = "DICT" /\ OnAbsent("create")) =>
        /\ last.exc = ""
        /\ last.key \in DOMAIN db_con /\ db_con[last.key] = last.value
        /\ Backend_read(backend, db_con, last.key).exc = ""
        /\ Backend_read(backend, db_con, last.key).ret = last.value

\* C18: after any sequence of facade create/update1/delete calls gold holds
\* exactly the keys present in the backend, each with the backend's value.
C18_GoldMirrorsBackend ==
    Facade => gold = db_con

\* C19 (as claimed): GET answers 200 for a present key and 404 for an absent
\* one, POST 201 for an absent key and 409 for a present one, PUT 200 for a
\* present key and 404 for an absent one, DELETE 200 for every input.
C19_StatusCodes_Claimed ==
    (Http /\ last.op \in Crud /\ (Len(last.key) > 0 \/ last.op = "delete")) =>
        /\ last.op = "read" =>
              last.status = IF last.key \in DOMAIN last.before
                            THEN 200 ELSE 404
        /\ last.op = "create" =>
              last.status = IF last.key \in DOMAIN last.before
                            THEN 409 ELSE 201
        /\ last.op = "update" =>
              last.status = IF last.key \in DOMAIN last.before
                            THEN 200 ELSE 404
        /\ last.op = "delete" => last.status = 200

\* the key holds a value (the item is there and its value is not None)
HeldBefore == last.key \in DOMAIN last.before /\ last.before[last.key] # None

\* C19 (amended): for a non-empty key, GET answers 200 when the key holds a
\* value and 403 otherwise, POST 200 for an absent key and 403 for a present
\* one, PUT 200 when the key holds a value and 403 otherwise, DELETE 200;
\* DELETE of the empty key answers 400.
C19_StatusCodes ==
    (Http /\ last.op \in Crud) =>
        IF Len(last.key) > 0
        THEN /\ last.exc = ""
             /\ last.op = "read" =>
                   last.status = IF HeldBefore THEN 200 ELSE 403
             /\ last.op = "create" =>
                   last.status = IF last.key \in DOMAIN last.before
                                 THEN 403 ELSE 200
             /\ last.op = "update" =>
                   last.status = IF HeldBefore THEN 200 ELSE 403
             /\ last.op = "delete" => last.status = 200
        ELSE last.op = "delete" => last.exc = "" /\ last.status = 400

C19_Witness ==
    /\ Http /\ OnAbsent("read") /\ Len(last.key) > 0
    /\ last.status = 403 /\ last.ret = None
    /\ kv_pairs # EmptyStore

\* C20: get_key_list returns exactly the keys present in the backend --
\* BackendMongo and BackendDict.
C20_KeyListIsKeySet ==
    ((Mongo \/ component = "BackendDict") /\ last.op = "get_key_list") =>
        last.exc = "" /\ last.ret = DOMAIN Store

\* both concurrent calls have returned
AllReturned == \A c \in Callers : calls[c].pc = "done"

\* caller a's call returned before caller b's
ReturnedBefore(a, b) ==
    \E i, j \in DOMAIN returned :
        i < j /\ returned[i] = a /\ returned[j] = b

\* the concurrent call of caller c succeeded
ConcSucceeded(c) ==
    calls[c].exc = "" /\ (Http => calls[c].status = 200)

\* C12: in every interleaving of kv_pair.put(k, v2) with kv_pair.delete(k)
\* on a present key k, if delete completes before put returns then k is
\* absent at the end: put never re-creates a record that delete removed
\* between put's read and its save.
C12_PutAtomicWithDelete ==
    (Http /\ AllReturned) =>
        \A p, d \in Callers :
            ( /\ calls[p].op = "put" /\ calls[d].op = "delete"
              /\ calls[p].key = calls[d].key
              /\ calls[p].key \in DOMAIN initial
              /\ ReturnedBefore(d, p) )
            => calls[p].key \notin DOMAIN kv_pairs

\* (C12 when delete returns before put has made its read: then put finds
\* nothing and the key stays absent)
C12_DeleteBeforePutReads ==
    Http =>
        \A p, d \in Callers :
            ( /\ calls[p].op = "put" /\ calls[d].op = "delete"
              /\ calls[p].key = calls[d].key
              /\ calls[p].key \in DOMAIN initial
              /\ calls[d].pc = "done" /\ calls[p].pc = "called" )
            => calls[p].key \notin DOMAIN kv_pairs

\* C13: in every interleaving of two create calls for the same absent key k
\* with values v1 and v2, exactly one succeeds, the other fails, and the
\* stored value is the value of the one that succeeded -- for kv_pair.post
\* (on a key DynamoDB accepts), BackendMongo.create and BackendDict.create.
C13_CreateExactlyOnce ==
    AllReturned =>
        \A a, b \in Callers :
            ( /\ a # b
              /\ calls[a].op \in {"post", "create"}
              /\ calls[b].op = calls[a].op
              /\ calls[a].key = calls[b].key
              /\ calls[a].key \notin DOMAIN initial
              /\ (Http => Len(calls[a].key) > 0)
              /\ ReturnedBefore(a, b) )
            => /\ ConcSucceeded(a) # ConcSucceeded(b)
               /\ calls[a].key \in DOMAIN Store
               /\ \A w \in {a, b} :
                    ConcSucceeded(w) => Store[calls[a].key] = calls[w].value

\* (C13 for the two stores that enforce uniqueness themselves: kv_pair.post
\* and BackendMongo.create)
C13_CreateExactlyOnce_Native ==
    (component # "BackendDict") => C13_CreateExactlyOnce

\* C21: the facade's create on a key that already exists does not fail: it
\* performs the create anyway, so that after create(k, v2) on a key k
\* holding v, read(k) returns v2 (DICT backend).
C21_FacadeCreateOverwrites ==
    (Facade /\ backend = "DICT" /\ OnPresent("create")) =>
        /\ last.exc = ""
        /\ Backend_read(backend, db_con, last.key).exc = ""
        /\ Backend_read(backend, db_con, last.key).ret = last.value

\* a create of v2 on a key holding a different v
C21_Witness ==
    /\ Facade /\ backend = "DICT" /\ OnPresent("create")
    /\ last.before[last.key] # last.value
    /\ last.exc = ""


\* C22: with a str instance parameter and an int para, checking
\* function_uut_one's result against a nominal str that does not match it
\* raises TypeError.
C22_MismatchRaisesTypeError ==
    ( /\ uut.op = "test_function_uut_one"
      /\ uut.parameter.t = "str" /\ uut.para.t = "int"
      /\ uut.nominal.t = "str"
      /\ uut.nominal.s # Repeat(uut.parameter.s, uut.para.n) )
    => uut.exc = "TypeError"

\* (what that check does raise: the failed assert)
C22_MismatchRaisesAssertionError ==
    ( /\ uut.op = "test_function_uut_one"
      /\ uut.parameter.t = "str" /\ uut.para.t = "int"
      /\ uut.nominal.t = "str"
      /\ uut.nominal.s # Repeat(uut.parameter.s, uut.para.n) )
    => uut.exc = "AssertionError"
\* C23: for a key the table accepts, get(k) returns (None, 403) when k is
\* absent and also when k is present with a stored value of None, and
\* (value, 200) in every other case; put(k, v) likewise returns 403 without
\* changing the store when the stored value of k is None.
C23_NoneReadsAsAbsent ==
    (Http /\ Len(last.key) > 0) =>
        /\ last.op = "read" =>
            /\ last.exc = ""
            /\ IF HeldBefore
               THEN last.ret = last.before[last.key] /\ last.status = 200
               ELSE last.ret = None /\ last.status = 403
        /\ (OnPresent("update") /\ last.before[last.key] = None) =>
            /\ last.exc = "" /\ last.status = 403
            /\ kv_pairs = last.before

\* a put on a key whose stored value is None
C23_Witness ==
    /\ Http /\ OnPresent("update")
    /\ last.before[last.key] = None
    /\ last.value # None
    /\ last.status = 403


\* the latest test_post, test_put or test_delete returned without an
\* exception
TestReturned ==
    hlast.op \in {"test_post", "test_put", "test_delete"} /\ hlast.exc = ""

\* C24: starting from an empty check_dict and any database contents, after
\* every test_post, test_put or test_delete that returns without an
\* assertion failure, every k in check_dict has get(k) == (check_dict[k],
\* 200) and every k removed by test_delete has get(k) == (None, 403).
C24_CheckDictAgrees ==
    TestReturned =>
        /\ \A k \in DOMAIN check_dict :
            get(kv_pairs, k) =
                {[exc |-> "", ret |-> check_dict[k], status |-> 200]}
        /\ \A k \in removed :
            get(kv_pairs, k) = {[exc |-> "", ret |-> None, status |-> 403]}

\* (C24 as long as no None has been handed to the tests as a value)
C24_CheckDictAgrees_Valued ==
    (TestReturned /\ \A k \in DOMAIN check_dict : check_dict[k] # None) =>
        C24_CheckDictAgrees

\* C25: with the DICT tag the verification sequence holds: through the
\* creates and the update1 calls, up to the first delete, read(k) returns
\* the last value written for every key k created; once every key has been
\* deleted read(k) raises KeyError for every one of them, and no call of the
\* sequence fails.
C25_VerifySequence ==
    (backend = "DICT") =>
        /\ vrfy.pc # "raised"
        /\ vrfy.results
        /\ (vrfy.pc \in {"create", "update"}
              \/ (vrfy.pc = "delete" /\ vrfy.todo = DOMAIN gold)) =>
            \A k \in DOMAIN gold :
                /\ Backend_read(backend, db_con, k).exc = ""
                /\ Backend_read(backend, db_con, k).ret = gold[k]
        /\ vrfy.pc \in {"read", "done"} =>
            \A k \in DOMAIN gold :
                Backend_read(backend, db_con, k).exc = "KeyError"

\* the sequence ran to its end on COUNT keys
C25_Witness ==
    /\ backend = "DICT"
    /\ vrfy.pc = "done" /\ vrfy.results
    /\ Cardinality(DOMAIN gold) = COUNT
    /\ db_con = EmptyStore
\* C26: whenever BackendMongo.disconnect returns normally the connected
\* flag is False, on every path through the method; a freshly constructed
\* backend has connected True.
C26_DisconnectClearsConnected ==
    Mongo =>
        /\ last.op = "init" => connected
        /\ (last.op = "disconnect" /\ last.exc = "") => ~connected

\* (C26 for the one path that assigns the flag: disconnect clears it when it
\* returns through self.db_obj.close())
C26_DbObjClosePathClears ==
    \A probe \in Probes :
        (probe.db_close /\ probe.db_callable /\ ~probe.raises) =>
            ~BackendMongo_disconnect(connected, probe).connected

\* C27: none of the facade operations create, read, update1 or delete ever
\* modifies the facade's gold map: it is empty after construction and stays
\* so through every facade call, for every backend tag and every outcome
\* including errors.
C27_FacadeLeavesGold ==
    Facade => gold = EmptyStore

\* a facade create that stored a pair and left gold empty
C27_Witness ==
    /\ Facade /\ last.op = "create" /\ last.exc = ""
    /\ db_con # EmptyStore
    /\ gold = EmptyStore

\* C28: BackendMongo.read cannot distinguish an absent key from a key stored
\* with the empty string: for every key k, read(k) when k is absent returns
\* the same result (the empty string, no error) as read(k) when k is
\* present with value "".
C28_AbsentReadsAsEmpty ==
    (Mongo /\ OnAbsent("read")) =>
        LET stored == BackendMongo_read(SetItem(last.before, last.key, <<>>),
                                        last.key)
        IN  /\ last.exc = "" /\ last.ret = <<>>
            /\ stored.exc = last.exc /\ stored.ret = last.ret

\* both reads happen: the latest one found no document, and another key of
\* the collection is stored with the empty string
C28_Witness ==
    /\ Mongo /\ OnAbsent("read")
    /\ \E k \in DOMAIN coll : coll[k] = <<>>

\* C29: Backend.__init__ succeeds only for the tags DICT, SQLLIGHT and
\* MONGODB; for every other tag it raises NotImplementedError, so no
\* constructed facade has one of those tags, nothing is ever called on one
\* and its db_con, gold and connected were never set.
C29_OnlyThreeTagsConstruct ==
    Facade =>
        /\ constructed <=> backend \in {"DICT", "SQLLIGHT", "MONGODB"}
        /\ ~constructed =>
            /\ last.op = "init" /\ last.exc = "NotImplementedError"
            /\ db_con = EmptyStore /\ gold = EmptyStore /\ ~connected
        /\ last.op \in Crud => backend \in {"DICT", "SQLLIGHT", "MONGODB"}

\* a constructor call with another tag, which raised
C29_Witness ==
    /\ Facade /\ backend = "TEXTFILE"
    /\ ~constructed /\ last.exc = "NotImplementedError"


\* C30: the kv_pair2 main program runs to completion: verify_crud finishes
\* without error on BackendMongo and then on BackendDict, each disconnect()
\* returns, and the program reaches sys.exit(0) -- it never stops anywhere
\* else (two of the random keys coinciding apart).
C30_MainRunsToCompletion ==
    \/ main.pc = "exit"
    \/ ENABLED NextProgram
    \/ main.pc = "raised" /\ main.db = "db_mongo"
          /\ main.exc = "DuplicateKeyError"

\* (what happens: no run of the program reaches sys.exit(0), and none gets
\* past the first db_dict.read)
C30_NeverExits ==
    /\ main.pc # "exit"
    /\ main.db = "db_dict" => main.pc \in {"create", "read", "raised"}
    /\ (main.db = "db_dict" /\ main.pc = "raised") =>
            main.exc = "NotImplementedError"
====
